---- MODULE Spec2Model ----
(***************************************************************************)
(* Model of the Wavefront OBJ ingestion pipeline of shaderdev:             *)
(*   internal/obj/obj.go   toElem, toIndex, adjustIndex, Decode (addFace)  *)
(*   main package          loadModel (Decode followed by the dedup loop)   *)
(*                                                                         *)
(* A Go string is a sequence of one-character strings, so that             *)
(* strings.Fields, strings.Split, strings.HasPrefix, strconv.ParseInt and  *)
(* strconv.ParseFloat are computed character by character.  Go slices and  *)
(* arrays are TLA+ sequences; an index i of the program is kept 0-based    *)
(* and read as seq[i + 1].                                                 *)
(***************************************************************************)
EXTENDS Integers, Sequences, FiniteSets, TLC

VARIABLES
    pc,         \* position in loadModel: "open", "scan", "dedup", "built", "failed", "panic"
    o,          \* Decode's local  var o Obj  (Pos, Tex, Nor, Face)
    line,       \* Decode's line counter
    text,       \* scanner.Text() of the current iteration of Decode's loop
    ret,        \* what Decode returned: [doc |-> "nil" | "o", err |-> error]
    m,          \* loadModel's  var m model  (pos, tex, nor, idx)
    knownVerts, \* loadModel's map[[3]int]uint32, as a function on the triples seen
    cur,        \* number of face vertices the dedup loop has processed
    cnt,        \* history: how many v, vt, vn and f lines were read so far
    ref,        \* history: Decode of the same lines without the unsupported ones
    emitted,    \* Stream: the events its sinks have received, in order
    prog,       \* program.go: the *program p (update, shaderByStage, shadersByPath)
    call        \* program.go: the last call made on prog and the error it returned

vars == <<pc, o, line, text, ret, m, knownVerts, cur, cnt, ref>>

\* the variables of Stream and of program.go, which loadModel does not touch
others == <<emitted, prog, call>>

allvars == <<pc, o, line, text, ret, m, knownVerts, cur, cnt, ref, emitted, prog, call>>

----------------------------------------------------------------------------
(* Bounds of the model *)

\* number of lines the scanner delivers before end of stream
MaxLines == 4

\* FaceSpec: largest size of an attribute collection when the face line is read
MaxAttr == 3

\* ProgSpec: number of addPath calls made on the program
MaxPaths == 3

----------------------------------------------------------------------------
(* Characters and strings *)

\* a local of the program: the value v, computed once, bound in the body F
With(v, F(_)) == F(v)

Digits == <<"0", "1", "2", "3", "4", "5", "6", "7", "8", "9">>

IsDigit(c) == \E d \in 1..10 : Digits[d] = c

DigitVal(c) == (CHOOSE d \in 1..10 : Digits[d] = c) - 1

\* unicode.IsSpace on the characters of the model's alphabet
IsSpace(c) == c \in {" ", "\t"}

\* strings.HasPrefix(s, "#")
HasPrefixHash(s) == Len(s) >= 1 /\ s[1] = "#"

RECURSIVE FieldsFrom(_, _, _, _)
FieldsFrom(s, i, word, acc) ==
    IF i > Len(s)
    THEN IF word = <<>> THEN acc ELSE Append(acc, word)
    ELSE IF IsSpace(s[i])
         THEN FieldsFrom(s, i + 1, <<>>, IF word = <<>> THEN acc ELSE Append(acc, word))
         ELSE FieldsFrom(s, i + 1, Append(word, s[i]), acc)

\* strings.Fields(s): the maximal runs of non-space characters
Fields(s) == FieldsFrom(s, 1, <<>>, <<>>)

RECURSIVE SplitFrom(_, _, _, _)
SplitFrom(s, i, part, acc) ==
    IF i > Len(s)
    THEN Append(acc, part)
    ELSE IF s[i] = "/"
         THEN SplitFrom(s, i + 1, <<>>, Append(acc, part))
         ELSE SplitFrom(s, i + 1, Append(part, s[i]), acc)

\* strings.Split(s, "/"): the parts between the slashes, empty parts kept
SplitSlash(s) == SplitFrom(s, 1, <<>>, <<>>)

RECURSIVE DigitsValue(_, _, _)
DigitsValue(s, i, acc) ==
    IF i > Len(s) THEN acc ELSE DigitsValue(s, i + 1, 10 * acc + DigitVal(s[i]))

\* the decimal syntax  [+-]? digit+  shared by ParseInt(s, 10, _) and, on
\* the alphabet of the model, by ParseFloat
IsDecimal(s) ==
    LET body == IF Len(s) >= 1 /\ s[1] \in {"+", "-"} THEN SubSeq(s, 2, Len(s)) ELSE s
    IN  Len(body) >= 1 /\ \A i \in 1..Len(body) : IsDigit(body[i])

DecimalValue(s) ==
    IF s[1] = "-" THEN 0 - DigitsValue(s, 2, 0)
    ELSE IF s[1] = "+" THEN DigitsValue(s, 2, 0)
    ELSE DigitsValue(s, 1, 0)

MinInt32 == -2147483647 - 1
MaxInt32 == 2147483647

\* strconv.ParseInt(s, 10, 32): syntax error or range error, else the value
ParseInt(s) ==
    IF ~IsDecimal(s) THEN [ok |-> FALSE, val |-> 0]
    ELSE With(DecimalValue(s), LAMBDA v :
            IF v < MinInt32 \/ v > MaxInt32
            THEN [ok |-> FALSE, val |-> 0]
            ELSE [ok |-> TRUE, val |-> v])

\* strconv.ParseFloat(s, 32) on the fields the model feeds it: signed
\* decimal integers parse to their value, anything else is an error
ParseFloat(s) ==
    IF IsDecimal(s) THEN [ok |-> TRUE, val |-> DecimalValue(s)]
    ELSE [ok |-> FALSE, val |-> 0]

----------------------------------------------------------------------------
(* internal/obj: element classes, index conversion *)

comElem == 0
posElem == 1
texElem == 2
norElem == 3
facElem == 4
errElem == 5

\* toElem with vn classified as a texcoord
toElemNormalAsTex(s) ==
    IF HasPrefixHash(s) THEN 0
    ELSE IF s = <<"v">> THEN 1
    ELSE IF s = <<"v", "t">> \/ s = <<"v", "n">> THEN 2
    ELSE IF s = <<"f">> THEN 4
    ELSE 5

\* toElem matching f as a prefix, the way it matches #
toElemFacePrefix(s) ==
    IF HasPrefixHash(s) THEN 0
    ELSE IF s = <<"v">> THEN 1
    ELSE IF s = <<"v", "t">> THEN 2
    ELSE IF s = <<"v", "n">> THEN 3
    ELSE IF Len(s) >= 1 /\ s[1] = "f" THEN 4
    ELSE 5

toElem(s) ==
    IF HasPrefixHash(s) THEN comElem
    ELSE IF s = <<"v">> THEN posElem
    ELSE IF s = <<"v", "t">> THEN texElem
    ELSE IF s = <<"v", "n">> THEN norElem
    ELSE IF s = <<"f">> THEN facElem
    ELSE errElem

\* error values: kind names the fmt.Errorf site, line the leading "%v: " of
\* the message (0 when it has none), vertex the "vertex %v" of a face error
\* (-1 when it has none), att the "v", "vt" or "vn" of an index error
Err(ln, kind, vertex, att) ==
    [line |-> ln, kind |-> kind, vertex |-> vertex, att |-> att]

NoErr == Err(0, "nil", -1, "")

\* toIndex without its test  val == 0
toIndexZeroAccepted(s) ==
    With(ParseInt(s), LAMBDA p :
        IF ~p.ok THEN [val |-> 0, err |-> "ParseInt"]
        ELSE [val |-> p.val, err |-> "nil"])

toIndex(s) ==
    With(ParseInt(s), LAMBDA p :
        IF ~p.ok THEN [val |-> 0, err |-> "ParseInt"]
        ELSE IF p.val = 0 THEN [val |-> 0, err |-> "0 is not a valid index"]
        ELSE [val |-> p.val, err |-> "nil"])

\* adjustIndex counting a negative index from one past the end
adjustIndexPastEnd(attIdx, attLen) ==
    LET res == IF attIdx < 0 THEN attIdx + attLen + 1 ELSE attIdx - 1
    IN  IF attIdx < 0 /\ res < 0 THEN [val |-> 0, err |-> "too negative"]
        ELSE IF res > attLen THEN [val |-> 0, err |-> "too large"]
        ELSE [val |-> res, err |-> "nil"]

adjustIndex(attIdx, attLen) ==
    LET res == IF attIdx < 0 THEN attIdx + attLen ELSE attIdx - 1
    IN  IF attIdx < 0 /\ res < 0 THEN [val |-> 0, err |-> "too negative"]
        ELSE IF res > attLen THEN [val |-> 0, err |-> "too large"]
        ELSE [val |-> res, err |-> "nil"]

----------------------------------------------------------------------------
(* internal/obj: Decode *)

ZeroObj == [Pos |-> <<>>, Tex |-> <<>>, Nor |-> <<>>, Face |-> <<>>]

ZeroVert == <<0, 0, 0>>

\* the index of the first vertex that splits into more than three parts, 0 if none
FirstLong(vertices) ==
    IF \E i \in 1..3 : Len(vertices[i]) > 3
    THEN CHOOSE i \in 1..3 : Len(vertices[i]) > 3 /\ \A j \in 1..(i - 1) : Len(vertices[j]) <= 3
    ELSE 0

\* addFace without the test of the texture index under skipTex
ElisionUnchecked(vert, skipTex) == FALSE

\* addFace's test  if skipTex { if len(vert[T]) != 0 { return error
ElisionMismatch(vert, skipTex) == skipTex /\ Len(vert[2]) # 0

\* one iteration of addFace's first loop over vertices: the triple left in
\* o.Face[f][i] and the error the iteration returns with, if any
ParseVert(vert, numAtt, skipTex) ==
    IF Len(vert) # numAtt
    THEN [v |-> ZeroVert, err |-> "all vertices must have the same number of attributes"]
    ELSE
    With(toIndex(vert[1]), LAMBDA p :
    IF p.err # "nil" THEN [v |-> ZeroVert, err |-> p.err]
    ELSE IF numAtt = 2 THEN
        With(toIndex(vert[2]), LAMBDA t :
            [v |-> <<p.val, t.val, 0>>, err |-> t.err])
    ELSE IF numAtt = 3 THEN
        IF ElisionMismatch(vert, skipTex)
        THEN [v |-> <<p.val, 0, 0>>,
              err |-> "all texture indices must be present or elided"]
        ELSE
        With(IF skipTex THEN [val |-> 0, err |-> "nil"] ELSE toIndex(vert[2]), LAMBDA t :
        IF t.err # "nil" THEN [v |-> <<p.val, 0, 0>>, err |-> t.err]
        ELSE With(toIndex(vert[3]), LAMBDA n :
                [v |-> <<p.val, t.val, n.val>>, err |-> n.err]))
    ELSE [v |-> <<p.val, 0, 0>>, err |-> "nil"])

RECURSIVE ParseVerts(_, _, _, _, _)
ParseVerts(face, vertices, numAtt, skipTex, i) ==
    IF i > 3 THEN [face |-> face, err |-> "nil", vertex |-> -1, att |-> ""]
    ELSE With(ParseVert(vertices[i], numAtt, skipTex), LAMBDA r :
            LET f2 == [face EXCEPT ![i] = r.v]
            IN  IF r.err # "nil"
                THEN [face |-> f2, err |-> r.err, vertex |-> i - 1, att |-> ""]
                ELSE ParseVerts(f2, vertices, numAtt, skipTex, i + 1))

\* one iteration of addFace's second loop: the three adjustIndex calls
AdjustVert(v, obj) ==
    LET p == adjustIndex(v[1], Len(obj.Pos)) IN
    IF p.err # "nil" THEN [v |-> <<0, v[2], v[3]>>, err |-> p.err, att |-> "v"]
    ELSE LET t == adjustIndex(v[2], Len(obj.Tex)) IN
    IF t.err # "nil" THEN [v |-> <<p.val, 0, v[3]>>, err |-> t.err, att |-> "vt"]
    ELSE LET n == adjustIndex(v[3], Len(obj.Nor)) IN
    IF n.err # "nil" THEN [v |-> <<p.val, t.val, 0>>, err |-> n.err, att |-> "vn"]
    ELSE [v |-> <<p.val, t.val, n.val>>, err |-> "nil", att |-> ""]

RECURSIVE AdjustVerts(_, _, _)
AdjustVerts(face, obj, i) ==
    IF i > 3 THEN [face |-> face, err |-> "nil", vertex |-> -1, att |-> ""]
    ELSE With(AdjustVert(face[i], obj), LAMBDA r :
            LET f2 == [face EXCEPT ![i] = r.v]
            IN  IF r.err # "nil"
                THEN [face |-> f2, err |-> r.err, vertex |-> i - 1, att |-> r.att]
                ELSE AdjustVerts(f2, obj, i + 1))

\* the closure addFace of Decode, on the three fields after "f": the Obj it
\* leaves and the error it returns
addFace(obj, fields) ==
    With([i \in 1..3 |-> SplitSlash(fields[i])], LAMBDA vertices :
    With(FirstLong(vertices), LAMBDA long :
        IF long # 0
        THEN [o |-> obj, err |-> "vertices cannot have more than three attributes",
              vertex |-> long - 1, att |-> ""]
        ELSE
        LET numAtt == Len(vertices[1])
            skipTex == numAtt = 3 /\ Len(vertices[1][2]) = 0
        IN
        With(ParseVerts(<<ZeroVert, ZeroVert, ZeroVert>>, vertices, numAtt, skipTex, 1),
             LAMBDA parsed :
        With(IF parsed.err # "nil" THEN parsed ELSE AdjustVerts(parsed.face, obj, 1),
             LAMBDA res :
            [o |-> [obj EXCEPT !.Face = Append(obj.Face, res.face)],
             err |-> res.err, vertex |-> res.vertex, att |-> res.att]))))

\* the loop  for i, v := range fields[1:]  of a v, vt or vn line: the array
\* as far as it was filled, and whether every field parsed
RECURSIVE ParseVec(_, _, _)
ParseVec(vec, fields, k) ==
    IF k > Len(fields) THEN [vec |-> vec, ok |-> TRUE]
    ELSE With(ParseFloat(fields[k]), LAMBDA f :
            IF ~f.ok THEN [vec |-> vec, ok |-> FALSE]
            ELSE ParseVec([vec EXCEPT ![k - 1] = f.val], fields, k + 1))

\* the body of Decode's scanner loop for one line of text, ln being the
\* line counter after line++: the Obj it leaves and the error it returns with
DecodeLine(obj, ln, t) ==
    With(Fields(t), LAMBDA fields :
    With(IF Len(fields) = 0 THEN comElem ELSE toElem(fields[1]), LAMBDA e :
    LET n == Len(fields)
        ok(ob) == [o |-> ob, err |-> NoErr]
    IN  IF n = 0 \/ e = comElem \/ e = errElem THEN ok(obj)
        ELSE IF e = posElem THEN
            IF n < 4 \/ n > 5
            THEN [o |-> obj, err |-> Err(ln, "v requires 3 or 4 values", -1, "")]
            ELSE With(ParseVec(<<0, 0, 0, 1>>, fields, 2), LAMBDA r :
                    LET ob == [obj EXCEPT !.Pos = Append(obj.Pos, r.vec)]
                    IN  IF r.ok THEN ok(ob)
                        ELSE [o |-> ob, err |-> Err(ln, "ParseFloat", -1, "")])
        ELSE IF e = texElem THEN
            IF n < 3 \/ n > 4
            THEN [o |-> obj, err |-> Err(ln, "vt requires 2 or 3 values", -1, "")]
            ELSE With(ParseVec(<<0, 0, 0>>, fields, 2), LAMBDA r :
                    LET ob == [obj EXCEPT !.Tex = Append(obj.Tex, r.vec)]
                    IN  IF r.ok THEN ok(ob)
                        ELSE [o |-> ob, err |-> Err(ln, "ParseFloat", -1, "")])
        ELSE IF e = norElem THEN
            IF n # 4
            THEN [o |-> obj, err |-> Err(ln, "vn requires 3 values", -1, "")]
            ELSE With(ParseVec(<<0, 0, 0>>, fields, 2), LAMBDA r :
                    LET ob == [obj EXCEPT !.Nor = Append(obj.Nor, r.vec)]
                    IN  IF r.ok THEN ok(ob)
                        ELSE [o |-> ob, err |-> Err(ln, "ParseFloat", -1, "")])
        ELSE \* facElem
            IF n # 4
            THEN [o |-> obj, err |-> Err(ln, "f requires 3 vertices", -1, "")]
            ELSE With(addFace(obj, SubSeq(fields, 2, 4)), LAMBDA r :
                    [o |-> r.o,
                     err |-> IF r.err = "nil" THEN NoErr
                             ELSE Err(ln, r.err, r.vertex, r.att)])))

----------------------------------------------------------------------------
(* The lines the scanner can deliver *)

RECURSIVE JoinFields(_)
JoinFields(fs) ==
    IF Len(fs) = 0 THEN <<>>
    ELSE IF Len(fs) = 1 THEN fs[1]
    ELSE fs[1] \o <<" ">> \o JoinFields(Tail(fs))

Kv  == <<"v">>
Kvt == <<"v", "t">>
Kvn == <<"v", "n">>
Kf  == <<"f">>
N0  == <<"0">>
N1  == <<"1">>
NX  == <<"x">>

\* well-formed v, vt and vn lines
PosLines == { JoinFields(<<Kv, N0, N1, N0>>), JoinFields(<<Kv, N1, N0, N0, N0>>) }
TexLines == { JoinFields(<<Kvt, N0, N1>>), JoinFields(<<Kvt, N1, N0, N1>>) }
NorLines == { JoinFields(<<Kvn, N0, N0, N1>>) }

\* v, vt, vn and f lines with a wrong field count or a non-numeric field
BadLines == { JoinFields(<<Kv, N0, N0>>), JoinFields(<<Kv, N0, N0, N0, N0, N0>>),
              JoinFields(<<Kv, N0, NX, N0>>),
              JoinFields(<<Kvt, N0>>), JoinFields(<<Kvt, N0, N0, N0, N0>>),
              JoinFields(<<Kvt, N1, NX>>),
              JoinFields(<<Kvn, N0, N0>>), JoinFields(<<Kvn, N0, N0, N0, N0>>),
              JoinFields(<<Kvn, NX, N0, N0>>),
              JoinFields(<<Kf, N1, N1>>), JoinFields(<<Kf, N1, N1, N1, N1>>) }

\* blank and comment lines
SkipLines == { <<>>, <<" ", "\t">>, <<"#", "v", " ", "1">> }

\* lines whose first field is no comment and none of v, vt, vn, f
UnsupportedLines == { <<"g">>, <<"f", "f", " ", "1", " ", "1", " ", "1">> }

Face(a, b, c) == JoinFields(<<Kf, a, b, c>>)

V1   == <<"1">>
V2   == <<"2">>
V3   == <<"3">>
V1t  == <<"1", "/", "1">>
V1tn == <<"1", "/", "1", "/", "1">>
V1n  == <<"1", "/", "/", "1">>
V2n  == <<"2", "/", "/", "1">>

\* the face lines of Spec
FaceLines ==
    { Face(V1, V1, V1), Face(V1, V2, V3), Face(V3, V2, V1),
      Face(<<"-", "1">>, <<"-", "2">>, <<"-", "3">>),
      Face(V1t, V1t, V1t), Face(V1tn, V1tn, V1tn), Face(V1n, V2n, V1n),
      Face(<<"0">>, V1, V2), Face(V1tn, V2n, V1tn), Face(V1, V1t, V1),
      Face(V1, NX, V1) }

InputLines ==
    PosLines \cup TexLines \cup NorLines \cup BadLines \cup SkipLines
        \cup UnsupportedLines \cup FaceLines

\* the sub-fields of the vertex fields of FaceSpec
SubFields == { <<>>, <<"0">>, <<"1">>, <<"2">>, <<"4">>, <<"-", "1">>, <<"-", "2">>,
               <<"-", "4">>, <<"-", "0">>, <<"x">> }

\* FaceSpec's face lines: a vertex p, p/t or p/t/n over SubFields, or of four
\* parts, beside two vertices of one of five forms, and three lines of Spec
RichFaceLines ==
    LET P == { <<p>> : p \in SubFields \ {<<>>} }
        PT == { <<p, t>> : p \in {<<"1">>, <<"0">>}, t \in SubFields }
        PTN == { <<<<"1">>, t, n>> : t \in SubFields, n \in {<<"1">>, <<"0">>} }
                   \cup { <<<<"1">>, t, n>> : t \in {<<"1">>, <<>>}, n \in SubFields }
        Four == { <<<<"1">>, <<"1">>, <<"1">>, <<"1">>>> }
        Slashed(v) == IF Len(v) = 1 THEN v[1]
                      ELSE IF Len(v) = 2 THEN v[1] \o <<"/">> \o v[2]
                      ELSE IF Len(v) = 3 THEN v[1] \o <<"/">> \o v[2] \o <<"/">> \o v[3]
                      ELSE v[1] \o <<"/">> \o v[2] \o <<"/">> \o v[3] \o <<"/">> \o v[4]
        All == P \cup PT \cup PTN \cup Four
        Tmpl == { <<<<"1">>>>, <<<<"1">>, <<"1">>>>, <<<<"1">>, <<"1">>, <<"1">>>>,
                  <<<<"1">>, <<>>, <<"1">>>>, <<<<"2">>, <<>>, <<"2">>>> }
    IN  { Face(Slashed(a), Slashed(b), Slashed(b)) : a \in Tmpl \cup Four, b \in All }
        \cup { Face(Slashed(b), Slashed(a), Slashed(a)) : a \in Tmpl, b \in All }
        \cup { Face(Slashed(a), Slashed(a), Slashed(b)) : a \in Tmpl, b \in All }
        \cup { Face(V1, V2, V3), Face(V3, V2, V1), Face(<<"-", "1">>, <<"-", "2">>, <<"-", "3">>) }

----------------------------------------------------------------------------
(* History of the input, kept for stating the properties *)

\* the first of the fields fs of a line is the token k
StartsWith(fs, k) == Len(fs) >= 1 /\ fs[1] = k

\* the first field is no comment and none of the tokens v, vt, vn, f
IsUnsupported(fs) ==
    /\ Len(fs) >= 1
    /\ fs[1][1] # "#"
    /\ fs[1] \notin {Kv, Kvt, Kvn, Kf}

ZeroCnt == [v |-> 0, vt |-> 0, vn |-> 0, f |-> 0]

Count(c, fs) ==
    IF StartsWith(fs, Kv) THEN [c EXCEPT !.v = @ + 1]
    ELSE IF StartsWith(fs, Kvt) THEN [c EXCEPT !.vt = @ + 1]
    ELSE IF StartsWith(fs, Kvn) THEN [c EXCEPT !.vn = @ + 1]
    ELSE IF StartsWith(fs, Kf) THEN [c EXCEPT !.f = @ + 1]
    ELSE c

ZeroRef == [o |-> ZeroObj, line |-> 0, err |-> NoErr]

\* the reference run: Decode over the same lines with the unsupported ones removed
RefStep(r, t, fs) ==
    IF r.err # NoErr \/ IsUnsupported(fs) THEN r
    ELSE With(DecodeLine(r.o, r.line + 1, t), LAMBDA d :
            [o |-> d.o, line |-> r.line + 1, err |-> d.err])

----------------------------------------------------------------------------
(* loadModel: os.Open, obj.Decode, the dedup loop *)

ZeroModel == [pos |-> <<>>, tex |-> <<>>, nor |-> <<>>, idx |-> <<>>]

NoVerts == [t \in {} |-> 0]

NoRet == [doc |-> "none", err |-> NoErr]

\* no Stream is running and no program was made
OthersIdle == emitted = <<>> /\ prog = "none" /\ call = "none"

Init ==
    /\ pc = "open"
    /\ o = ZeroObj
    /\ line = 0
    /\ text = <<>>
    /\ ret = NoRet
    /\ m = ZeroModel
    /\ knownVerts = NoVerts
    /\ cur = 0
    /\ cnt = ZeroCnt
    /\ ref = ZeroRef
    /\ OthersIdle

\* os.Open(file) fails: loadModel returns nil, err
OpenFail ==
    /\ pc = "open"
    /\ pc' = "failed"
    /\ ret' = [doc |-> "none", err |-> Err(0, "open", -1, "")]
    /\ UNCHANGED <<o, line, text, m, knownVerts, cur, cnt, ref>>
    /\ UNCHANGED others

\* os.Open(file) succeeds and Decode starts scanning
Open ==
    /\ pc = "open"
    /\ pc' = "scan"
    /\ UNCHANGED <<o, line, text, ret, m, knownVerts, cur, cnt, ref>>
    /\ UNCHANGED others

\* one iteration of Decode's loop, scanner.Scan() having delivered the line
\* t.  An error makes Decode return nil, err, and loadModel return nil, err.
Scan(t) ==
    LET d == DecodeLine(o, line + 1, t)
        fs == Fields(t)
    IN  /\ line' = line + 1
        /\ text' = t
        /\ o' = d.o
        /\ cnt' = Count(cnt, fs)
        /\ ref' = RefStep(ref, t, fs)
        /\ IF d.err = NoErr
           THEN pc' = "scan" /\ ret' = ret
           ELSE pc' = "failed" /\ ret' = [doc |-> "nil", err |-> d.err]
        /\ UNCHANGED <<m, knownVerts, cur>>
        /\ UNCHANGED others

ScanLine ==
    /\ pc = "scan"
    /\ line < MaxLines
    /\ \E t \in InputLines : Scan(t)

\* scanner.Scan() returns false with a read error: Decode returns nil, err
ScanErr ==
    /\ pc = "scan"
    /\ pc' = "failed"
    /\ ret' = [doc |-> "nil", err |-> Err(0, "read", -1, "")]
    /\ UNCHANGED <<o, line, text, m, knownVerts, cur, cnt, ref>>
    /\ UNCHANGED others

\* scanner.Scan() returns false at end of stream: Decode returns &o, nil and
\* loadModel enters its loop over o.Face
ScanEOF ==
    /\ pc = "scan"
    /\ pc' = "dedup"
    /\ ret' = [doc |-> "o", err |-> NoErr]
    /\ UNCHANGED <<o, line, text, m, knownVerts, cur, cnt, ref>>
    /\ UNCHANGED others

InRange(i, s) == 0 <= i /\ i < Len(s)

\* an index expression reading the first element whatever the index
AtFirst(s, i) == s[1]

\* the Go index expression s[i] on an index within range
At(s, i) == s[i + 1]

\* the new index taken from the index array instead of the vertex array
NewIndexFromIdx(mm) == Len(mm.idx)

\* i := uint32(len(m.pos))
NewIndex(mm) == Len(mm.pos)

\* one iteration of the inner loop of loadModel, on vertex cur % 3 of face
\* cur / 3; an index expression out of range panics
DedupVertex ==
    /\ pc = "dedup"
    /\ cur < 3 * Len(o.Face)
    /\ LET overt == o.Face[(cur \div 3) + 1][(cur % 3) + 1]
           i == NewIndex(m)
           needTex == Len(o.Tex) > 0
           needNor == Len(o.Nor) > 0
           known == [t \in DOMAIN knownVerts \cup {overt} |->
                        IF t = overt THEN i ELSE knownVerts[t]]
       IN  IF overt \in DOMAIN knownVerts
           THEN /\ m' = [m EXCEPT !.idx = Append(@, knownVerts[overt])]
                /\ cur' = cur + 1
                /\ UNCHANGED <<pc, knownVerts>>
           ELSE IF ~InRange(overt[1], o.Pos)
           THEN /\ pc' = "panic"
                /\ m' = [m EXCEPT !.idx = Append(@, i)]
                /\ knownVerts' = known
                /\ UNCHANGED cur
           ELSE IF needTex /\ ~InRange(overt[2], o.Tex)
           THEN /\ pc' = "panic"
                /\ m' = [m EXCEPT !.idx = Append(@, i),
                                  !.pos = Append(@, At(o.Pos, overt[1]))]
                /\ knownVerts' = known
                /\ UNCHANGED cur
           ELSE IF needNor /\ ~InRange(overt[3], o.Nor)
           THEN /\ pc' = "panic"
                /\ m' = [m EXCEPT !.idx = Append(@, i),
                                  !.pos = Append(@, At(o.Pos, overt[1])),
                                  !.tex = IF needTex THEN Append(@, At(o.Tex, overt[2])) ELSE @]
                /\ knownVerts' = known
                /\ UNCHANGED cur
           ELSE /\ m' = [pos |-> Append(m.pos, At(o.Pos, overt[1])),
                         tex |-> IF needTex THEN Append(m.tex, At(o.Tex, overt[2])) ELSE m.tex,
                         nor |-> IF needNor THEN Append(m.nor, At(o.Nor, overt[3])) ELSE m.nor,
                         idx |-> Append(m.idx, i)]
                /\ knownVerts' = known
                /\ cur' = cur + 1
                /\ UNCHANGED pc
    /\ UNCHANGED <<o, line, text, ret, cnt, ref>>
    /\ UNCHANGED others

\* the loop over o.Face is finished: loadModel returns &m, nil
DedupDone ==
    /\ pc = "dedup"
    /\ cur = 3 * Len(o.Face)
    /\ pc' = "built"
    /\ UNCHANGED <<o, line, text, ret, m, knownVerts, cur, cnt, ref>>
    /\ UNCHANGED others

Next ==
    \/ OpenFail
    \/ Open
    \/ ScanLine
    \/ ScanErr
    \/ ScanEOF
    \/ DedupVertex
    \/ DedupDone

Spec == Init /\ [][Next]_allvars

----------------------------------------------------------------------------
(* FaceSpec: Decode reading its first face line, drawn from RichFaceLines,  *)
(* after a stream of v, vt and vn lines                                     *)

RECURSIVE Repeat(_, _)
Repeat(x, n) == IF n = 0 THEN <<>> ELSE <<x>> \o Repeat(x, n - 1)

\* nP v lines, then nT vt lines, then nN vn lines
AttrLines(nP, nT, nN) ==
    Repeat(JoinFields(<<Kv, N0, N1, N0>>), nP) \o Repeat(JoinFields(<<Kvt, N0, N1>>), nT)
        \o Repeat(JoinFields(<<Kvn, N0, N0, N1>>), nN)

\* Decode's o after reading lines, none of which fails
RECURSIVE DecodeLines(_, _, _)
DecodeLines(obj, ln, lines) ==
    IF Len(lines) = 0 THEN obj
    ELSE DecodeLines(DecodeLine(obj, ln + 1, Head(lines)).o, ln + 1, Tail(lines))

FaceInit ==
    \E nP \in 0..MaxAttr, nT \in 0..MaxAttr, nN \in 0..MaxAttr :
        LET lines == AttrLines(nP, nT, nN)
            obj == DecodeLines(ZeroObj, 0, lines)
        IN  /\ pc = "scan"
            /\ o = obj
            /\ line = Len(lines)
            /\ text = IF Len(lines) = 0 THEN <<>> ELSE lines[Len(lines)]
            /\ ret = NoRet
            /\ m = ZeroModel
            /\ knownVerts = NoVerts
            /\ cur = 0
            /\ cnt = [v |-> nP, vt |-> nT, vn |-> nN, f |-> 0]
            /\ ref = [o |-> obj, line |-> Len(lines), err |-> NoErr]
            /\ OthersIdle

ScanFace ==
    /\ pc = "scan"
    /\ cnt.f = 0
    /\ \E t \in RichFaceLines : Scan(t)

FaceNext ==
    \/ ScanFace
    \/ ScanEOF

FaceSpec == FaceInit /\ [][FaceNext]_allvars

----------------------------------------------------------------------------
(* internal/obj: Stream, the callback-driven mode                           *)

\* var emitPos func([4]float32), emitNor, emitTex, emitFace: function
\* variables that Stream declares and never assigns, so each holds nil
emitPos == "nil"
emitTex == "nil"
emitNor == "nil"
emitFace == "nil"

\* parseFace(fields, &face): the face it leaves in *_face and the error it
\* returns.  Its loops are those of the first half of addFace, but each
\* parsed vertex goes to a local that is dropped: *_face is written back as
\* it was read.
parseFace(fields, face) ==
    With([i \in 1..3 |-> SplitSlash(fields[i])], LAMBDA vertices :
    With(FirstLong(vertices), LAMBDA long :
        IF long # 0
        THEN [face |-> face, err |-> "vertices cannot have more than three attributes",
              vertex |-> long - 1]
        ELSE
        LET numAtt == Len(vertices[1])
            skipTex == numAtt = 3 /\ Len(vertices[1][2]) = 0
        IN
        With(ParseVerts(<<ZeroVert, ZeroVert, ZeroVert>>, vertices, numAtt, skipTex, 1),
             LAMBDA parsed :
            [face |-> face, err |-> parsed.err, vertex |-> parsed.vertex])))

\* the body of Stream's scanner loop for one line of text: the sink it
\* calls ("none" if it calls none), the value it passes, the error it
\* returns with
StreamLine(ln, t) ==
    With(Fields(t), LAMBDA fields :
    With(IF Len(fields) = 0 THEN comElem ELSE toElem(fields[1]), LAMBDA e :
    LET n == Len(fields)
        skip == [sink |-> "none", val |-> <<>>, err |-> NoErr]
        fail(kind, vertex) == [sink |-> "none", val |-> <<>>, err |-> Err(ln, kind, vertex, "")]
    IN  IF n = 0 \/ e = comElem \/ e = errElem THEN skip
        ELSE IF e = posElem THEN
            IF n < 4 \/ n > 5 THEN fail("v requires 3 or 4 values", -1)
            ELSE With(ParseVec(<<0, 0, 0, 1>>, fields, 2), LAMBDA r :
                    IF r.ok THEN [sink |-> "emitPos", val |-> r.vec, err |-> NoErr]
                    ELSE fail("ParseFloat", -1))
        ELSE IF e = texElem THEN
            IF n < 3 \/ n > 4 THEN fail("vt requires 2 or 3 values", -1)
            ELSE With(ParseVec(<<0, 0, 0>>, fields, 2), LAMBDA r :
                    IF r.ok THEN [sink |-> "emitTex", val |-> r.vec, err |-> NoErr]
                    ELSE fail("ParseFloat", -1))
        ELSE IF e = norElem THEN
            IF n # 4 THEN fail("vn requires 3 values", -1)
            ELSE With(ParseVec(<<0, 0, 0>>, fields, 2), LAMBDA r :
                    IF r.ok THEN [sink |-> "emitNor", val |-> r.vec, err |-> NoErr]
                    ELSE fail("ParseFloat", -1))
        ELSE \* facElem
            IF n # 4 THEN fail("f requires 3 vertices", -1)
            ELSE With(parseFace(SubSeq(fields, 2, 4), <<>>), LAMBDA r :
                    IF r.err = "nil" THEN [sink |-> "emitFace", val |-> r.face, err |-> NoErr]
                    ELSE fail(r.err, r.vertex))))

\* the function value held by the sink of that name
SinkOf(name) ==
    IF name = "emitPos" THEN emitPos
    ELSE IF name = "emitTex" THEN emitTex
    ELSE IF name = "emitNor" THEN emitNor
    ELSE emitFace

\* Stream is called on an open reader
StreamInit ==
    /\ pc = "stream"
    /\ o = ZeroObj
    /\ line = 0
    /\ text = <<>>
    /\ ret = NoRet
    /\ m = ZeroModel
    /\ knownVerts = NoVerts
    /\ cur = 0
    /\ cnt = ZeroCnt
    /\ ref = ZeroRef
    /\ emitted = <<>>
    /\ prog = "none"
    /\ call = "none"

\* one iteration of Stream's loop on the line t: an error returns it, a
\* call of a sink that holds nil panics, a call of a bound sink delivers
\* the event
StreamScan(t) ==
    LET d == StreamLine(line + 1, t)
    IN  /\ line' = line + 1
        /\ text' = t
        /\ cnt' = Count(cnt, Fields(t))
        /\ IF d.err # NoErr
           THEN pc' = "returned" /\ ret' = [doc |-> "none", err |-> d.err]
                /\ emitted' = emitted
           ELSE IF d.sink = "none"
           THEN pc' = "stream" /\ ret' = ret /\ emitted' = emitted
           ELSE IF SinkOf(d.sink) = "nil"
           THEN pc' = "panic" /\ ret' = ret /\ emitted' = emitted
           ELSE pc' = "stream" /\ ret' = ret
                /\ emitted' = Append(emitted, [sink |-> d.sink, val |-> d.val])
        /\ UNCHANGED <<o, m, knownVerts, cur, ref, prog, call>>

StreamScanLine ==
    /\ pc = "stream"
    /\ line < MaxLines
    /\ \E t \in InputLines : StreamScan(t)

\* scanner.Scan() returns false with a read error: Stream returns it
StreamScanErr ==
    /\ pc = "stream"
    /\ pc' = "returned"
    /\ ret' = [doc |-> "none", err |-> Err(0, "read", -1, "")]
    /\ UNCHANGED <<o, line, text, m, knownVerts, cur, cnt, ref, emitted, prog, call>>

\* scanner.Scan() returns false at end of stream: Stream returns nil
StreamEOF ==
    /\ pc = "stream"
    /\ pc' = "done"
    /\ ret' = [doc |-> "none", err |-> NoErr]
    /\ UNCHANGED <<o, line, text, m, knownVerts, cur, cnt, ref, emitted, prog, call>>

StreamNext ==
    \/ StreamScanLine
    \/ StreamScanErr
    \/ StreamEOF

StreamSpec == StreamInit /\ [][StreamNext]_allvars

----------------------------------------------------------------------------
(* program.go: the shader program and its hot-reload flags                  *)

\* the shader stages and the source paths given on the command line, and a
\* path of a watched directory that belongs to no shader
Stages == {"vs", "fs"}
Paths == {"a.glsl", "b.glsl"}
OtherPath == "notes.txt"

\* the ways updateShader can fail: os.Open, ioutil.ReadAll, gx.CompileSource
ShaderErrs == {"open", "read", "compile"}

EmptyMap == [k \in {} |-> 0]

\* m[k] = v, the key k being added when the map has none
MapSet(mp, k, v) == [x \in DOMAIN mp \cup {k} |-> IF x = k THEN v ELSE mp[x]]

\* newProgram(): no shader, update set.  A *shader is named by its stage,
\* shaderByStage holding at most one shader per stage.
newProgram == [update |-> TRUE, shaderByStage |-> EmptyMap, shadersByPath |-> EmptyMap]

\* addPath(p, stage, path)
addPath(pp, stage, path) ==
    LET s == IF stage \in DOMAIN pp.shaderByStage THEN pp.shaderByStage[stage]
             ELSE [paths |-> <<>>, update |-> FALSE]
        ss == IF path \in DOMAIN pp.shadersByPath THEN pp.shadersByPath[path] ELSE <<>>
    IN  [update |-> TRUE,
         shaderByStage |-> MapSet(pp.shaderByStage, stage,
                                  [paths |-> Append(s.paths, path), update |-> TRUE]),
         shadersByPath |-> MapSet(pp.shadersByPath, path, Append(ss, stage))]

\* pathChanged(p, path): the program it leaves and the error it returns
pathChanged(pp, path) ==
    IF path \notin DOMAIN pp.shadersByPath
    THEN [p |-> pp, err |-> "no shader associated with path"]
    ELSE LET ss == pp.shadersByPath[path]
             marked == { ss[i] : i \in 1..Len(ss) }
         IN  [p |-> [pp EXCEPT !.update = TRUE,
                               !.shaderByStage = [st \in DOMAIN @ |->
                                    IF st \in marked THEN [@[st] EXCEPT !.update = TRUE]
                                    ELSE @[st]]],
              err |-> "nil"]

\* updateShader(s), out being "nil" or the way opening, reading or compiling
\* fails: the shader it leaves and the error it returns
updateShader(s, out) ==
    IF ~s.update THEN [s |-> s, err |-> "nil"]
    ELSE [s |-> [s EXCEPT !.update = FALSE], err |-> out]

\* the loop of updateProgram over p.shaderByStage, in the order the map
\* iteration takes: it returns at the first error of updateShader
RECURSIVE UpdateShaders(_, _, _, _)
UpdateShaders(shaders, order, outs, k) ==
    IF k > Len(order) THEN [shaders |-> shaders, err |-> "nil"]
    ELSE With(updateShader(shaders[order[k]], outs[order[k]]), LAMBDA r :
            LET sh == [shaders EXCEPT ![order[k]] = r.s]
            IN  IF r.err # "nil" THEN [shaders |-> sh, err |-> r.err]
                ELSE UpdateShaders(sh, order, outs, k + 1))

\* updateProgram(p), link being "nil" or "link" when gx.LinkProgram fails
updateProgram(pp, order, outs, link) ==
    IF ~pp.update THEN [p |-> pp, err |-> "nil"]
    ELSE With(UpdateShaders(pp.shaderByStage, order, outs, 1), LAMBDA r :
            [p |-> [pp EXCEPT !.update = FALSE, !.shaderByStage = r.shaders],
             err |-> IF r.err # "nil" THEN r.err ELSE link])

\* the orders in which a range over a map with the keys ks can run
Orders(ks) ==
    { ord \in [1..Cardinality(ks) -> ks] :
        \A i, j \in 1..Cardinality(ks) : i # j => ord[i] # ord[j] }

\* the number of addPath calls made so far
NumPaths(pp) ==
    LET RECURSIVE Sum(_)
        Sum(ks) == IF ks = {} THEN 0
                   ELSE LET k == CHOOSE x \in ks : TRUE
                        IN  Len(pp.shaderByStage[k].paths) + Sum(ks \ {k})
    IN  Sum(DOMAIN pp.shaderByStage)

\* main has made the program
ProgInit ==
    /\ pc = "prog"
    /\ o = ZeroObj
    /\ line = 0
    /\ text = <<>>
    /\ ret = NoRet
    /\ m = ZeroModel
    /\ knownVerts = NoVerts
    /\ cur = 0
    /\ cnt = ZeroCnt
    /\ ref = ZeroRef
    /\ emitted = <<>>
    /\ prog = newProgram
    /\ call = [op |-> "newProgram", err |-> "nil"]

AddPath ==
    /\ pc = "prog"
    /\ NumPaths(prog) < MaxPaths
    /\ \E stage \in Stages, path \in Paths :
          /\ prog' = addPath(prog, stage, path)
          /\ call' = [op |-> "addPath", err |-> "nil"]
    /\ UNCHANGED <<vars, emitted>>

\* a write event of the watcher on a path of a watched directory
PathChanged ==
    /\ pc = "prog"
    /\ \E path \in Paths \cup {OtherPath} :
          LET r == pathChanged(prog, path)
          IN  /\ prog' = r.p
              /\ call' = [op |-> "pathChanged", err |-> r.err]
    /\ UNCHANGED <<vars, emitted>>

\* one call of updateProgram, the whole of it: the map iteration takes some
\* order, each updateShader and the link succeed or fail
UpdateProgram ==
    /\ pc = "prog"
    /\ \E order \in Orders(DOMAIN prog.shaderByStage),
          outs \in [DOMAIN prog.shaderByStage -> {"nil"} \cup ShaderErrs],
          link \in {"nil", "link"} :
          LET r == updateProgram(prog, order, outs, link)
          IN  /\ prog' = r.p
              /\ call' = [op |-> "updateProgram", err |-> r.err]
    /\ UNCHANGED <<vars, emitted>>

ProgNext ==
    \/ AddPath
    \/ PathChanged
    \/ UpdateProgram

ProgSpec == ProgInit /\ [][ProgNext]_allvars

----------------------------------------------------------------------------
(* Vocabulary of the properties *)

\* Decode returned a Document
Returned == ret.doc = "o"

\* Decode returned no Document and an error carrying the number of the
\* line it read last
Rejected == pc = "failed" /\ ret.doc = "nil" /\ ret.err.line = line

\* the fields of the line read last (none before the first line)
LastFields == IF line = 0 THEN <<>> ELSE Fields(text)

\* fs is a face line of three vertices
IsFace(fs) == Len(fs) = 4 /\ fs[1] = Kf

\* the sub-fields of the three vertices of the face line fs
PartsOf(fs) == [i \in 1..3 |-> SplitSlash(fs[i + 1])]

\* in the vertices ps, vertex i supplies component c (1: position,
\* 2: texcoord, 3: normal)
Supplied(ps, i, c) == c <= Len(ps[i]) /\ ps[i][c] # <<>>

\* vertex i supplies component c as a decimal integer, Raw(ps, i, c)
SuppliedInt(ps, i, c) == Supplied(ps, i, c) /\ IsDecimal(ps[i][c])

Raw(ps, i, c) == DecimalValue(ps[i][c])

\* the collection of component c, and its size
Coll(c) == IF c = 1 THEN o.Pos ELSE IF c = 2 THEN o.Tex ELSE o.Nor

LenOf(c) == Len(Coll(c))

\* the 0-based index a raw index k stands for in a collection of n entries
Resolve(k, n) == IF k < 0 THEN n + k ELSE k - 1

\* the face appended last
LastFace == o.Face[Len(o.Face)]

\* all vertices have the form of the first: as many sub-fields, at most
\* three, and with three the same elision of the texcoord
SameForm(ps) ==
    /\ Len(ps[1]) <= 3
    /\ \A i \in 1..3 :
        /\ Len(ps[i]) = Len(ps[1])
        /\ Len(ps[1]) = 3 => ((ps[i][2] = <<>>) <=> (ps[1][2] = <<>>))

\* vertex i has a raw index 0 in one of its first three sub-fields
ZeroAt(ps, i) == \E c \in 1..3 : SuppliedInt(ps, i, c) /\ Raw(ps, i, c) = 0

HasZero(ps) == \E i \in 1..3 : ZeroAt(ps, i)

\* the first vertex with a raw index 0, counted from 0
FirstZero(ps) ==
    (CHOOSE i \in 1..3 : ZeroAt(ps, i) /\ \A j \in 1..(i - 1) : ~ZeroAt(ps, j)) - 1

\* every sub-field is an integer or the elided texcoord of a p//n vertex
AllInts(ps) ==
    \A i \in 1..3 : \A c \in 1..Len(ps[i]) :
        IsDecimal(ps[i][c]) \/ (c = 2 /\ Len(ps[i]) = 3 /\ ps[i][c] = <<>>)

\* some supplied nonzero index resolves outside its collection
HasOutOfRange(ps) ==
    \E i \in 1..3, c \in 1..3 :
        /\ SuppliedInt(ps, i, c)
        /\ Raw(ps, i, c) # 0
        /\ ~(0 <= Resolve(Raw(ps, i, c), LenOf(c)) /\ Resolve(Raw(ps, i, c), LenOf(c)) < LenOf(c))

\* some supplied negative index -k has k above the size of its collection
HasTooNegative(ps) ==
    \E i \in 1..3, c \in 1..3 :
        SuppliedInt(ps, i, c) /\ Raw(ps, i, c) < 0 /\ 0 - Raw(ps, i, c) > LenOf(c)

FaceBack == Face(<<"-", "1">>, <<"-", "2">>, <<"-", "3">>)

----------------------------------------------------------------------------
(* Properties *)

\* C1: in every Document Decode returns, each of the three index components
\* of every vertex of every face lies in [0, len) of its collection.
C1_IndicesInRange ==
    Returned =>
        \A f \in 1..Len(o.Face) : \A i \in 1..3 : \A c \in 1..3 :
            InRange(o.Face[f][i][c], Coll(c))

\* C2: a vertex that supplies no texcoord index (p, p//n) or no normal index
\* (p, p/t) has 0 in that component of its triple in the returned Document;
\* f 1 2 3 after three positions gives (0,0,0), (1,0,0), (2,0,0).
C2_AbsentIsZero ==
    LET fs == LastFields
        ps == PartsOf(fs)
    IN  (Returned /\ IsFace(fs)) =>
            /\ \A i \in 1..3 :
                /\ ~Supplied(ps, i, 2) => LastFace[i][2] = 0
                /\ ~Supplied(ps, i, 3) => LastFace[i][3] = 0
            /\ (text = Face(V1, V2, V3) /\ Len(o.Pos) = 3)
                    => LastFace = <<<<0, 0, 0>>, <<1, 0, 0>>, <<2, 0, 0>>>>

\* C3: a face line with a supplied index that resolves outside
\* [0, currentLength) of its collection makes Decode fail.
C3_OutOfRangeRejected ==
    LET fs == LastFields
    IN  (IsFace(fs) /\ HasOutOfRange(PartsOf(fs))) => (pc = "failed" /\ ret.doc = "nil")

\* C4 as stated: a face line with a raw index 0 in any sub-field makes Decode
\* return no Document and an error that names the zero index and the line.
C4_ZeroNamed ==
    LET fs == LastFields
    IN  (IsFace(fs) /\ HasZero(PartsOf(fs))) =>
            (Rejected /\ ret.err.kind = "0 is not a valid index")

\* C4 as amended: a face line with a raw index 0 in any sub-field makes Decode
\* return no Document and an error carrying the line, whatever the sizes of
\* the collections; the error is the zero-index error of the first vertex
\* with a 0 when the line has no other defect of syntax.
C4_ZeroRejected ==
    LET fs == LastFields
        ps == PartsOf(fs)
    IN  (IsFace(fs) /\ HasZero(ps)) =>
            /\ Rejected
            /\ (SameForm(ps) /\ AllInts(ps)) =>
                    /\ ret.err.kind = "0 is not a valid index"
                    /\ ret.err.vertex = FirstZero(ps)

C4_Witness ==
    LET fs == LastFields
        ps == PartsOf(fs)
    IN  /\ IsFace(fs) /\ Rejected
        /\ Len(o.Pos) = MaxAttr /\ Len(o.Tex) = 0 /\ Len(o.Nor) = 1
        /\ ~ZeroAt(ps, 1) /\ ~ZeroAt(ps, 2)
        /\ SuppliedInt(ps, 3, 3) /\ Raw(ps, 3, 3) = 0
        /\ ret.err.kind = "0 is not a valid index" /\ ret.err.vertex = 2

\* C5: with n entries in a collection and 1 <= k <= n, the raw index -k
\* resolves to n - k, as the raw index n - k + 1 does; a negative index with
\* k > n is rejected; f -1 -2 -3 after three positions gives the triples of
\* f 3 2 1.
C5_NegativeIndex ==
    LET fs == LastFields
        ps == PartsOf(fs)
    IN  /\ \A c \in 1..3 : \A k \in 1..LenOf(c) :
            /\ adjustIndex(0 - k, LenOf(c)) = [val |-> LenOf(c) - k, err |-> "nil"]
            /\ adjustIndex(LenOf(c) - k + 1, LenOf(c)) = adjustIndex(0 - k, LenOf(c))
        /\ (IsFace(fs) /\ pc # "failed") =>
                \A i \in 1..3, c \in 1..3 :
                    (SuppliedInt(ps, i, c) /\ Raw(ps, i, c) < 0) =>
                        /\ LastFace[i][c] = LenOf(c) + Raw(ps, i, c)
                        /\ InRange(LastFace[i][c], Coll(c))
        /\ (IsFace(fs) /\ HasTooNegative(ps)) => Rejected
        /\ (line >= 1 /\ text = FaceBack /\ Len(o.Pos) = 3) =>
                LET before == [o EXCEPT !.Face = SubSeq(@, 1, Len(@) - 1)]
                    other == addFace(before, <<V3, V2, V1>>)
                IN  /\ pc # "failed"
                    /\ other.err = "nil"
                    /\ LastFace = other.o.Face[Len(other.o.Face)]

C5_Witness ==
    /\ Returned
    /\ text = FaceBack
    /\ Len(o.Pos) = 3
    /\ LastFace[1][1] = 2 /\ LastFace[2][1] = 1 /\ LastFace[3][1] = 0

\* the number in field k of the fields fs, 0 where there is none
NumberAt(fs, k) == IF k <= Len(fs) /\ IsDecimal(fs[k]) THEN DecimalValue(fs[k]) ELSE 0

\* the array a v line with the fields fs declares, w defaulting to 1
ExpectPos(fs) ==
    <<NumberAt(fs, 2), NumberAt(fs, 3), NumberAt(fs, 4), IF Len(fs) = 5 THEN NumberAt(fs, 5) ELSE 1>>

\* the array a vt line with the fields fs declares, w defaulting to 0
ExpectTex(fs) == <<NumberAt(fs, 2), NumberAt(fs, 3), NumberAt(fs, 4)>>

ExpectNor(fs) == <<NumberAt(fs, 2), NumberAt(fs, 3), NumberAt(fs, 4)>>

\* a line that Decode accepts adds one entry at the end of the collection of
\* its kind and changes nothing else; every other accepted line changes nothing
C6_Step ==
    (pc = "scan" /\ pc' = "scan" /\ line' = line + 1) =>
        LET fs == Fields(text')
        IN  IF StartsWith(fs, Kv) THEN o' = [o EXCEPT !.Pos = Append(@, ExpectPos(fs))]
            ELSE IF StartsWith(fs, Kvt) THEN o' = [o EXCEPT !.Tex = Append(@, ExpectTex(fs))]
            ELSE IF StartsWith(fs, Kvn) THEN o' = [o EXCEPT !.Nor = Append(@, ExpectNor(fs))]
            ELSE IF StartsWith(fs, Kf)
                 THEN /\ Len(o'.Face) = Len(o.Face) + 1
                      /\ [o' EXCEPT !.Face = SubSeq(@, 1, Len(o.Face))] = o
            ELSE o' = o

\* C6: the Document Decode returns has as many entries in Pos, Tex, Nor and
\* Face as the input has v, vt, vn and f lines, in order of appearance;
\* comment, blank and unsupported lines add no entry.
C6_CountsInOrder ==
    /\ [](Returned => /\ Len(o.Pos) = cnt.v
                       /\ Len(o.Tex) = cnt.vt
                       /\ Len(o.Nor) = cnt.vn
                       /\ Len(o.Face) = cnt.f)
    /\ [][C6_Step]_vars

C6_Witness ==
    /\ Returned
    /\ Len(o.Pos) >= 1 /\ Len(o.Tex) >= 1 /\ Len(o.Face) >= 1
    /\ line > cnt.v + cnt.vt + cnt.vn + cnt.f

\* the index triples the faces of the Document refer to
Triples == { o.Face[f][i] : f \in 1..Len(o.Face), i \in 1..3 }

\* C7: the mesh loadModel builds has 3 x len(Face) indices, each below
\* len(pos); len(pos) is the number of distinct triples of the faces; tex and
\* nor are as long as pos when the Document has texcoords, normals.
C7_DedupShape ==
    pc = "built" =>
        /\ Len(m.idx) = 3 * Len(o.Face)
        /\ \A j \in 1..Len(m.idx) : 0 <= m.idx[j] /\ m.idx[j] < Len(m.pos)
        /\ Len(m.pos) = Cardinality(Triples)
        /\ Len(o.Tex) > 0 => Len(m.tex) = Len(m.pos)
        /\ Len(o.Nor) > 0 => Len(m.nor) = Len(m.pos)

C7_Witness ==
    /\ pc = "built"
    /\ Len(o.Face) = 2
    /\ Len(m.pos) = 3
    /\ m.idx = <<0, 0, 0, 1, 2, 1>>

\* C8: Decode accepts a face line only if all three vertices have as many
\* sub-fields as the first, at most three, and with three agree with the
\* first on the elision of the texcoord; any other face line makes Decode
\* return an error and no Document.
C8_SameForm ==
    LET fs == LastFields
    IN  (IsFace(fs) /\ ~SameForm(PartsOf(fs))) => (pc = "failed" /\ ret.doc = "nil")

C8_Witness ==
    LET fs == LastFields
        ps == PartsOf(fs)
    IN  /\ IsFace(fs) /\ Rejected
        /\ \A i \in 1..3 : Len(ps[i]) = 3 /\ AllInts(ps) /\ ~HasZero(ps)
        /\ ps[1][2] = <<>> /\ ps[2][2] # <<>>
        /\ ret.err.kind = "all texture indices must be present or elided"

\* a v, vt, vn or f line with a wrong number of fields
WrongCount(fs) ==
    \/ fs[1] = Kv /\ Len(fs) \notin {4, 5}
    \/ fs[1] = Kvt /\ Len(fs) \notin {3, 4}
    \/ fs[1] = Kvn /\ Len(fs) # 4
    \/ fs[1] = Kf /\ Len(fs) # 4

\* a v, vt or vn line or a face line with a field that is no number
NonNumeric(fs) ==
    \/ fs[1] \in {Kv, Kvt, Kvn} /\ \E k \in 2..Len(fs) : ~IsDecimal(fs[k])
    \/ IsFace(fs) /\ \E i \in 1..3, c \in 1..3 :
                        Supplied(PartsOf(fs), i, c) /\ ~IsDecimal(PartsOf(fs)[i][c])

\* a face line with an index that is 0 or resolves outside its collection
InvalidIndex(fs) == IsFace(fs) /\ (HasZero(PartsOf(fs)) \/ HasOutOfRange(PartsOf(fs)))

\* C9: at the first line with a wrong field count, a non-numeric field or an
\* invalid face index Decode stops and returns no Document and an error
\* whose line number is the 1-based number of that line.
C9_FailFast ==
    LET fs == LastFields
    IN  (Len(fs) >= 1 /\ (WrongCount(fs) \/ NonNumeric(fs) \/ InvalidIndex(fs))) => Rejected

\* C10: an unsupported line never makes Decode fail and leaves the
\* collections as they are: Decode ends as it does on the same input
\* without the unsupported lines, with the same Document.
C10_UnsupportedSkipped ==
    /\ (IsUnsupported(LastFields) /\ pc = "failed") => ret.err.kind = "read"
    /\ pc \in {"scan", "dedup", "built", "panic"} => (ref.err = NoErr /\ ref.o = o)
    /\ (pc = "failed" /\ ret.err.kind \notin {"read", "open"}) =>
            /\ ref.err.kind = ret.err.kind
            /\ ref.err.vertex = ret.err.vertex
            /\ ref.line <= line

C10_Witness ==
    /\ Returned
    /\ IsUnsupported(LastFields)
    /\ line = 4 /\ ref.line = 2
    /\ Len(o.Pos) = 1 /\ Len(o.Face) = 1

\* the j-th face-vertex reference of the Document, j counted from 1 in
\* declaration order: vertex (j - 1) mod 3 of face (j - 1) div 3
RefAt(j) == o.Face[((j - 1) \div 3) + 1][((j - 1) % 3) + 1]

\* the position of the first reference to the triple of the j-th reference
FirstRef(j) == CHOOSE k \in 1..j : RefAt(k) = RefAt(j) /\ \A h \in 1..(k - 1) : RefAt(h) # RefAt(j)

\* C12: while the dedup loop of loadModel runs and when it has returned, the
\* flat index of every reference processed so far is the number of distinct
\* triples first seen before the first reference to its triple (new indices
\* are handed out 0, 1, 2, ... in first-occurrence order and a triple seen
\* before reuses its index), and the flat arrays hold at that index the
\* position the triple refers to, and its texcoord and normal when the
\* Document has texcoords, normals.
C12_DedupPreserves ==
    pc \in {"dedup", "built"} =>
        /\ Len(m.idx) = cur
        /\ \A j \in 1..cur :
              LET t == RefAt(j)
                  i == m.idx[j]
              IN  /\ i = Cardinality({ RefAt(k) : k \in 1..(FirstRef(j) - 1) })
                  /\ i < Len(m.pos)
                  /\ m.pos[i + 1] = o.Pos[t[1] + 1]
                  /\ Len(o.Tex) > 0 => m.tex[i + 1] = o.Tex[t[2] + 1]
                  /\ Len(o.Nor) > 0 => m.nor[i + 1] = o.Nor[t[3] + 1]

\* a face whose third vertex repeats the first, over two different positions
\* and a normal
C12_Witness ==
    /\ pc = "built"
    /\ m.idx = <<0, 1, 0>>
    /\ Len(m.pos) = 2 /\ m.pos[1] # m.pos[2]
    /\ Len(m.nor) = 2 /\ Len(m.tex) = 0

\* C13: for every Document a successful Decode returns, the dedup loop of
\* loadModel runs to its end: no read of o.Pos, and of o.Tex and o.Nor when
\* the Document has texcoords, normals, is out of range.
C13_DedupInRange == pc # "panic"

\* C11: Stream, over lines none of which has a syntax or index error, passes
\* one event to its sinks per v, vt, vn and f line read, the event of the
\* line just read being the last one delivered and going to the sink of
\* that line's kind, and it never stops otherwise than by returning.
C11_StreamEmits ==
    /\ pc # "panic"
    /\ ret.err = NoErr =>
          /\ Len(emitted) = cnt.v + cnt.vt + cnt.vn + cnt.f
          /\ line > 0 =>
                LET d == StreamLine(line, text)
                IN  d.sink # "none" =>
                      /\ emitted # <<>>
                      /\ emitted[Len(emitted)] = [sink |-> d.sink, val |-> d.val]

\* some shader of the program is marked for recompilation
SomeShaderDirty == \E st \in DOMAIN prog.shaderByStage : prog.shaderByStage[st].update

\* the update flags of the program and of its shaders
Flags(pp) == <<pp.update, [st \in DOMAIN pp.shaderByStage |-> pp.shaderByStage[st].update]>>

\* C14: after any calls of addPath, pathChanged and updateProgram, a program
\* with a shader whose update flag is set has its own update flag set, so the
\* next updateProgram recompiles that shader; and a pathChanged that returns
\* the error of a path without shader has changed no flag.
C14_DirtyFlags ==
    /\ [](pc = "prog" /\ SomeShaderDirty => prog.update)
    /\ [][call'.op = "pathChanged" /\ call'.err # "nil" => Flags(prog') = Flags(prog)]_allvars

====
